--------------------------- MODULE Spec2Model ---------------------------
(***************************************************************************)
(* Function-type lowering, call emission, builtin lowering and function    *)
(* entry marshaling of lib/IRGen/GenFunc.cpp.                              *)
(*                                                                         *)
(* Low-level (LLVM) types are uniqued by the LLVM context, so two          *)
(* llvm::FunctionType objects are the same object exactly when they have   *)
(* the same result type and parameter list: a signature is modelled by its *)
(* value.                                                                  *)
(***************************************************************************)
EXTENDS Integers, Sequences, FiniteSets, TLC

\* Largest number of fields of an input tuple / formal parameters.
MaxFields == 2

VARIABLES
  \* One FuncTypeInfo descriptor and the calls emitted through it.
  FnTy,                     \* FuncTypeInfo::FnTy
  FunctionTypeWithData,     \* cache slot, <<>> when null
  FunctionTypeWithoutData,  \* cache slot, <<>> when null
  lastCall,                 \* <<>> or <<the last getFunctionType call>>
  firstType,                \* per flag: <<>> or <<what its first call returned>>
  applied,                  \* <<>> or <<what the last emitApplyExpr did>>
  cacheHit,                 \* per flag: a call found its slot already set
  \* Builtin calls.
  builtin,                  \* <<>> or <<the last emitBuiltinCall: inputs, outcome>>
  \* Closure-shaped slots in memory.
  memory,                   \* the elements of every slot
  stored,                   \* per address: <<>> or <<the r-value last stored>>
  loaded,                   \* <<>> or <<the last load: address, r-value, and
                            \*   what was last stored there at the time>>
  \* The function being emitted.
  CurFuncExpr,              \* the function expression: Result, NamedArgs
  CurFnArgs,                \* the types of CurFn's arguments
  prologue,                 \* <<>> or <<the outcome of emitPrologue>>
  body,                     \* <<>> or <<what the function body left behind>>
  epilogue                  \* <<>> or <<the outcome of emitEpilogue>>

vars == <<FnTy, FunctionTypeWithData, FunctionTypeWithoutData, lastCall, firstType,
          applied, cacheHit, builtin, memory, stored, loaded, CurFuncExpr, CurFnArgs,
          prologue, body, epilogue>>

sigVars == <<FnTy, FunctionTypeWithData, FunctionTypeWithoutData, lastCall,
             firstType, applied, cacheHit>>

\* The state of the other parts of the file.
notSigVars == <<builtin, memory, stored, loaded, CurFuncExpr, CurFnArgs, prologue,
                body, epilogue>>

closureVars == <<memory, stored, loaded>>

funcVars == <<CurFuncExpr, CurFnArgs, prologue, body, epilogue>>

---------------------------------------------------------------------------
(* Low-level types.  k is the kind; agg names the pointee of a pointer to  *)
(* an aggregate; elts are the element types of a first-class struct.       *)

LLType(k, agg, elts) == [k |-> k, agg |-> agg, elts |-> elts]

VoidTy == LLType("void", "", <<>>)

ScalarTy(s) == LLType(s, "", <<>>)

Int8PtrTy == ScalarTy("i8p")

getPointerTo(aggTy) == LLType("ptr", aggTy, <<>>)

StructTy(scalars) == LLType("struct", "", scalars)

isFloatingPointTy(ty) == ty.k = "f64"

---------------------------------------------------------------------------
(* RValueSchema: either an aggregate passed by address or an ordered list  *)
(* of scalar types.                                                        *)

forScalars(scalars) == [agg |-> FALSE, scalars |-> scalars, aggTy |-> ""]

forAggregate(aggTy) == [agg |-> TRUE, scalars |-> <<>>, aggTy |-> aggTy]

isAggregate(schema) == schema.agg

isScalar(schema) == ~schema.agg

\* RValueSchema::isScalar(N): scalar with exactly N scalar slots.
isScalarN(schema, N) == ~schema.agg /\ Len(schema.scalars) = N

\* The source types of the model, by name.
LeafTypes == {"Unit", "Int", "Func", "Pair", "Big"}

\* IGM.getFragileTypeInfo(Ty).getSchema() for the types of the model.  A
\* function type is two opaque pointers (FuncTypeInfo::getSchema).
getSchema(Ty) ==
  CASE Ty = "Unit"   -> forScalars(<<>>)
    [] Ty = "Int"    -> forScalars(<<"i64">>)
    [] Ty = "Func"   -> forScalars(<<"i8p", "i8p">>)
    [] Ty = "Pair"   -> forScalars(<<"i64", "f64">>)
    [] Ty = "Big"    -> forAggregate("Big")

\* Sequences over S of length at most n.
SeqUpTo(S, n) == UNION {[1..k -> S] : k \in 0..n}

\* A function's input: a tuple type with its fields, or one other type
\* (held as the only element of fields).
InputTypes ==
  {[tuple |-> TRUE, fields |-> f] : f \in SeqUpTo(LeafTypes, MaxFields)}
    \cup {[tuple |-> FALSE, fields |-> <<t>>] : t \in LeafTypes \ {"Unit"}}

FunctionTypes == {[Input |-> i, Result |-> r] : i \in InputTypes, r \in LeafTypes}

---------------------------------------------------------------------------
(* FuncTypeInfo::getFunctionType                                           *)

\* A low-level function signature.
FunctionTypeGet(ResultType, ArgTypes) == [ret |-> ResultType, params |-> ArgTypes]

addArgType_FirstScalarOnly(Ty, ArgTypes) ==
  LET Schema == getSchema(Ty) IN
  IF isScalar(Schema)
    THEN ArgTypes \o [i \in 1..(IF Len(Schema.scalars) > 0 THEN 1 ELSE 0)
                        |-> ScalarTy(Schema.scalars[i])]
    ELSE Append(ArgTypes, getPointerTo(Schema.aggTy))

\* The argument types one source type contributes.
addArgType(Ty, ArgTypes) ==
  LET Schema == getSchema(Ty) IN
  IF isScalar(Schema)
    THEN ArgTypes \o [i \in 1..Len(Schema.scalars) |-> ScalarTy(Schema.scalars[i])]
    ELSE Append(ArgTypes, getPointerTo(Schema.aggTy))

RECURSIVE addFieldArgTypes(_, _, _)
\* The loop over the fields of the input tuple, from field i on.
addFieldArgTypes(Fields, i, ArgTypes) ==
  IF i > Len(Fields) THEN ArgTypes
  ELSE addFieldArgTypes(Fields, i + 1, addArgType(Fields[i], ArgTypes))

ResultType_NoStruct(ResultSchema) ==
  IF isAggregate(ResultSchema) THEN VoidTy
  ELSE IF Len(ResultSchema.scalars) = 0 THEN VoidTy
  ELSE ScalarTy(ResultSchema.scalars[1])

\* The low-level return type for a result schema.
ResultTypeFor(ResultSchema) ==
  IF isAggregate(ResultSchema) THEN VoidTy
  ELSE IF Len(ResultSchema.scalars) = 0 THEN VoidTy
  ELSE IF Len(ResultSchema.scalars) = 1 THEN ScalarTy(ResultSchema.scalars[1])
  ELSE StructTy(ResultSchema.scalars)

\* The indirect-return parameter of an aggregate result.
ResultArgTypes(ResultSchema) ==
  IF isAggregate(ResultSchema) THEN <<getPointerTo(ResultSchema.aggTy)>> ELSE <<>>

\* Adds the parameters of the input after the ones already in ArgTypes.
InputArgTypes(FT, ArgTypes) ==
  IF FT.Input.tuple
    THEN addFieldArgTypes(FT.Input.fields, 1, ArgTypes)
    ELSE addArgType(FT.Input.fields[1], ArgTypes)

DataArgType_First(NeedsData, ArgTypes) ==
  IF NeedsData THEN <<Int8PtrTy>> \o ArgTypes ELSE ArgTypes

\* The data argument, added last.
DataArgType(NeedsData, ArgTypes) ==
  IF NeedsData THEN Append(ArgTypes, Int8PtrTy) ELSE ArgTypes

\* The signature computed on a cache miss.
computeFunctionType(FT, NeedsData) ==
  LET ResultSchema == getSchema(FT.Result)
      ArgTypes == DataArgType(NeedsData,
                    InputArgTypes(FT, ResultArgTypes(ResultSchema)))
  IN FunctionTypeGet(ResultTypeFor(ResultSchema), ArgTypes)

\* A cache slot is <<>> (null) or <<signature>>.
cacheLookup(WithData, WithoutData, NeedsData) ==
  IF NeedsData /\ WithData # <<>> THEN WithData
  ELSE IF ~NeedsData /\ WithoutData # <<>> THEN WithoutData
  ELSE <<>>

cacheStore_OtherSlot(WithData, WithoutData, NeedsData, IRType) ==
  IF NeedsData THEN [withData |-> WithData, withoutData |-> <<IRType>>]
  ELSE [withData |-> <<IRType>>, withoutData |-> WithoutData]

\* The two slots after caching IRType under NeedsData.
cacheStore(WithData, WithoutData, NeedsData, IRType) ==
  IF NeedsData THEN [withData |-> <<IRType>>, withoutData |-> WithoutData]
  ELSE [withData |-> WithData, withoutData |-> <<IRType>>]

\* The whole method: the signature returned and the two slots afterwards.
getFunctionType(FT, WithData, WithoutData, NeedsData) ==
  LET hit == cacheLookup(WithData, WithoutData, NeedsData) IN
  IF hit # <<>>
    THEN [IRType |-> hit[1], withData |-> WithData, withoutData |-> WithoutData]
    ELSE LET IRType == computeFunctionType(FT, NeedsData)
             c == cacheStore(WithData, WithoutData, NeedsData, IRType)
         IN [IRType |-> IRType, withData |-> c.withData, withoutData |-> c.withoutData]

---------------------------------------------------------------------------
(* Values, explosions and r-values.                                        *)

\* A low-level value: what it is, a number telling equal kinds apart, and
\* its type.
Val(v, n, ty) == [v |-> v, n |-> n, ty |-> ty]

UndefValue(ty) == Val("undef", 0, ty)

isUndefValue(x) == x.v = "undef"

\* An explosion: the values added and how many of them were claimed.
Explosion(Values) == [Values |-> Values, NextValue |-> 0]

\* Explosion::claimNext: the next unclaimed value.
claimNext(e) == e.Values[e.NextValue + 1]

\* RValue::forScalars and RValue::forAggregate.
RValueForScalars(scalars) == [isAgg |-> FALSE, scalars |-> scalars, addr |-> <<>>]

RValueForAggregate(addr) == [isAgg |-> TRUE, scalars |-> <<>>, addr |-> <<addr>>]

\* An emitted instruction.
Inst(op, n) == [op |-> op, n |-> n]

RECURSIVE explodedTypes(_, _)
\* The types of the values an argument expression of the given fields
\* explodes to under minimal explosion: one pointer for an aggregate field,
\* the scalar slots of any other field.
explodedTypes(Fields, i) ==
  IF i > Len(Fields) THEN <<>>
  ELSE LET s == getSchema(Fields[i]) IN
       (IF s.agg THEN <<getPointerTo(s.aggTy)>>
        ELSE [j \in 1..Len(s.scalars) |-> ScalarTy(s.scalars[j])])
         \o explodedTypes(Fields, i + 1)

\* emitExplodedRValue(E->getArg(), ...): the values of the explicit
\* arguments of a call whose argument expression has the callee's input type.
emitExplodedRValueArg(Input) ==
  LET tys == explodedTypes(Input.fields, 1) IN
  [i \in 1..Len(tys) |-> Val("arg", i, tys[i])]

\* What the callee expression can explode to: a code pointer and a data
\* pointer, either of which may be undef (emitExplodedRValueForFunction
\* yields (address, undef) for a global function and (undef, undef) for a
\* local one; a loaded closure yields any pair).
FnValues == {Val("fnaddr", 1, Int8PtrTy), UndefValue(Int8PtrTy)}

DataValues == {UndefValue(Int8PtrTy), Val("ctx", 1, Int8PtrTy)}

---------------------------------------------------------------------------
(* IRGenFunction::emitApplyExpr, the non-builtin path.                     *)

\* The implicit aggregate return slot: the argument, its attribute and the
\* alloca that creates it.
resultSlotArgs(resultSchema) ==
  IF isAggregate(resultSchema)
    THEN [Values |-> <<Val("call.aggresult", 0, getPointerTo(resultSchema.aggTy))>>,
          Attrs  |-> <<[Index |-> 1, Attrs |-> {"StructRet", "NoAlias"}]>>,
          insts  |-> <<Inst("alloca", 0)>>]
    ELSE [Values |-> <<>>, Attrs |-> <<>>, insts |-> <<>>]

needsDataFor_Always(data) == TRUE

\* No data argument is passed when the r-value says it is undefined.
needsDataFor(data) == ~isUndefValue(data)

buildResult_Reversed(resultSchema, args, call) ==
  IF isAggregate(resultSchema)
    THEN [rv |-> RValueForAggregate(claimNext(args)), insts |-> <<>>]
  ELSE LET N == Len(resultSchema.scalars) IN
       [rv |-> RValueForScalars(
                 [I \in 1..N |-> Val("extractvalue", N - I, ScalarTy(resultSchema.scalars[N - I + 1]))]),
        insts |-> [I \in 1..N |-> Inst("extractvalue", N - I)]]

\* The r-value of the call and the extractions emitted to build it.
buildResult(resultSchema, args, call) ==
  IF isAggregate(resultSchema)
    THEN [rv |-> RValueForAggregate(claimNext(args)), insts |-> <<>>]
  ELSE IF Len(resultSchema.scalars) = 1
    THEN [rv |-> RValueForScalars(<<call>>), insts |-> <<>>]
  ELSE LET N == Len(resultSchema.scalars) IN
       [rv |-> RValueForScalars(
                 [I \in 1..N |-> Val("extractvalue", I - 1, ScalarTy(resultSchema.scalars[I]))]),
        insts |-> [I \in 1..N |-> Inst("extractvalue", I - 1)]]

\* The whole call: resultType is the type info of the callee's result type.
emitApplyExpr(FT, WithData, WithoutData, fn, data) ==
  LET resultSchema == getSchema(FT.Result)
      slot == resultSlotArgs(resultSchema)
      explicit == emitExplodedRValueArg(FT.Input)
      needsData == needsDataFor(data)
      Values == slot.Values \o explicit \o (IF needsData THEN <<data>> ELSE <<>>)
      args == Explosion(Values)
      t == getFunctionType(FT, WithData, WithoutData, needsData)
      fnLLVMType == t.IRType
      call == Val("call", 0, fnLLVMType.ret)
      res == buildResult(resultSchema, args, call)
  IN [fn |-> fn, data |-> data, needsData |-> needsData,
      explicit |-> explicit,
      fnLLVMType |-> fnLLVMType,
      callArgs |-> args.Values, callAttrs |-> slot.Attrs,
      insts |-> slot.insts \o <<Inst("bitcast", 0), Inst("call", 0)>> \o res.insts,
      result |-> res.rv,
      withData |-> t.withData, withoutData |-> t.withoutData]

---------------------------------------------------------------------------
(* State of one FuncTypeInfo descriptor and of the calls emitted with it.  *)


SigInit ==
  /\ FnTy \in FunctionTypes
  /\ FunctionTypeWithData = <<>>
  /\ FunctionTypeWithoutData = <<>>
  /\ lastCall = <<>>
  /\ firstType = [b \in BOOLEAN |-> <<>>]
  /\ applied = <<>>
  /\ cacheHit = [b \in BOOLEAN |-> FALSE]

\* Bookkeeping of a getFunctionType call that returned IRType.
Returned(NeedsData, IRType) ==
  /\ cacheHit' = IF cacheLookup(FunctionTypeWithData, FunctionTypeWithoutData,
                                NeedsData) # <<>>
                   THEN [cacheHit EXCEPT ![NeedsData] = TRUE]
                   ELSE cacheHit
  /\ lastCall' = <<[NeedsData |-> NeedsData, IRType |-> IRType]>>
  /\ firstType' = IF firstType[NeedsData] = <<>>
                    THEN [firstType EXCEPT ![NeedsData] = <<IRType>>]
                    ELSE firstType

\* IRGenModule::getFunctionType(type, withData).
GetFunctionType ==
  \E NeedsData \in BOOLEAN :
    LET t == getFunctionType(FnTy, FunctionTypeWithData, FunctionTypeWithoutData,
                             NeedsData) IN
    /\ FunctionTypeWithData' = t.withData
    /\ FunctionTypeWithoutData' = t.withoutData
    /\ Returned(NeedsData, t.IRType)
    /\ UNCHANGED <<FnTy, applied>>
    /\ UNCHANGED notSigVars

\* A non-builtin call through a callee that explodes to (fn, data).
EmitApplyExpr ==
  \E fn \in FnValues, data \in DataValues :
    LET a == emitApplyExpr(FnTy, FunctionTypeWithData, FunctionTypeWithoutData,
                           fn, data) IN
    /\ applied' = <<a>>
    /\ FunctionTypeWithData' = a.withData
    /\ FunctionTypeWithoutData' = a.withoutData
    /\ Returned(a.needsData, a.fnLLVMType)
    /\ UNCHANGED FnTy
    /\ UNCHANGED notSigVars

---------------------------------------------------------------------------
(* Properties of the signature cache and of the derived signature.         *)

\* The last getFunctionType call, when there is one.
Last == lastCall[1]

\* C1: every getFunctionType call returns the signature the first call with
\* the same flag returned; a call with NeedsData=TRUE leaves the withoutData
\* slot alone, a call with NeedsData=FALSE leaves the withData slot alone,
\* and a slot that is set is never written again.
C1_SignatureMemoized ==
  [][/\ (lastCall' # <<>>
              => firstType'[lastCall'[1].NeedsData] = <<lastCall'[1].IRType>>)
     /\ (lastCall' # <<>> /\ lastCall'[1].NeedsData
           => FunctionTypeWithoutData' = FunctionTypeWithoutData)
     /\ (lastCall' # <<>> /\ ~lastCall'[1].NeedsData
           => FunctionTypeWithData' = FunctionTypeWithData)
     /\ (FunctionTypeWithData # <<>>
           => FunctionTypeWithData' = FunctionTypeWithData)
     /\ (FunctionTypeWithoutData # <<>>
           => FunctionTypeWithoutData' = FunctionTypeWithoutData)]_vars

\* Both flags were asked for again after their slots were set.
C1_Witness ==
  /\ cacheHit[TRUE] /\ cacheHit[FALSE]
  /\ FunctionTypeWithData # <<>> /\ FunctionTypeWithoutData # <<>>
  /\ FunctionTypeWithData # FunctionTypeWithoutData

\* The parameters one argument group contributes.
GroupSlots(Ty) ==
  IF getSchema(Ty).agg THEN <<getPointerTo(getSchema(Ty).aggTy)>>
  ELSE [j \in 1..Len(getSchema(Ty).scalars) |-> ScalarTy(getSchema(Ty).scalars[j])]

RECURSIVE FlattenGroups(_)
FlattenGroups(groups) ==
  IF groups = <<>> THEN <<>>
  ELSE GroupSlots(Head(groups)) \o FlattenGroups(Tail(groups))

\* The parameter list the function type F must have under flag nd.
ExpectedParams(F, nd) ==
  (IF getSchema(F.Result).agg THEN <<getPointerTo(getSchema(F.Result).aggTy)>> ELSE <<>>)
    \o FlattenGroups(F.Input.fields)
    \o (IF nd THEN <<Int8PtrTy>> ELSE <<>>)

\* The parameter order of every signature returned or cached.
ParamsInOrder ==
  /\ lastCall # <<>> => Last.IRType.params = ExpectedParams(FnTy, Last.NeedsData)
  /\ FunctionTypeWithData # <<>>
       => FunctionTypeWithData[1].params = ExpectedParams(FnTy, TRUE)
  /\ FunctionTypeWithoutData # <<>>
       => FunctionTypeWithoutData[1].params = ExpectedParams(FnTy, FALSE)
  /\ FunctionTypeWithData # <<>> /\ FunctionTypeWithoutData # <<>>
       => LET w == FunctionTypeWithData[1].params IN
          /\ Len(w) >= 1
          /\ FunctionTypeWithoutData[1].params = SubSeq(w, 1, Len(w) - 1)

\* C2 as stated: the parameter order, and the context pointer is never the
\* first parameter.
C2_ContextNeverFirst ==
  /\ ParamsInOrder
  /\ lastCall # <<>> /\ Last.NeedsData => Len(Last.IRType.params) > 1

\* C2 (amended): the parameters are the result pointer (aggregate result
\* only), the input groups flattened one level, then the context pointer
\* (NeedsData only); the context pointer is always last, and it is also first
\* exactly when the signature has no other parameter.
C2_ParamOrder ==
  /\ ParamsInOrder
  /\ lastCall # <<>> /\ Last.NeedsData
       => LET p == Last.IRType.params IN
          /\ Len(p) >= 1
          /\ p[Len(p)] = Int8PtrTy
          /\ (Len(p) = 1 <=> /\ ~getSchema(FnTy.Result).agg
                             /\ FlattenGroups(FnTy.Input.fields) = <<>>)

\* Both signatures of (Big, Func) -> Big are cached: a result pointer, an
\* aggregate group, a two-scalar group and the context pointer.
C2_Witness ==
  /\ FnTy = [Input |-> [tuple |-> TRUE, fields |-> <<"Big", "Func">>], Result |-> "Big"]
  /\ FunctionTypeWithData # <<>> /\ FunctionTypeWithoutData # <<>>
  /\ Len(FunctionTypeWithData[1].params) = 5

\* C3: the return type depends on the result schema alone: void for an
\* aggregate or empty schema, the scalar's type for one slot, a struct of
\* the slots in order for more; it is the same under both flags.
C3_ReturnType ==
  LET s == getSchema(FnTy.Result)
      expected == CASE s.agg -> VoidTy
                    [] ~s.agg /\ Len(s.scalars) = 0 -> VoidTy
                    [] ~s.agg /\ Len(s.scalars) = 1 -> ScalarTy(s.scalars[1])
                    [] OTHER -> LLType("struct", "", s.scalars)
  IN /\ lastCall # <<>> => Last.IRType.ret = expected
     /\ FunctionTypeWithData # <<>> => FunctionTypeWithData[1].ret = expected
     /\ FunctionTypeWithoutData # <<>> => FunctionTypeWithoutData[1].ret = expected

\* A two-slot result cached under both flags.
C3_Witness ==
  /\ FnTy.Result = "Pair"
  /\ FunctionTypeWithData # <<>> /\ FunctionTypeWithoutData # <<>>
  /\ FunctionTypeWithData[1].ret.elts = <<"i64", "f64">>

---------------------------------------------------------------------------
(* Properties of call emission.                                            *)

\* The last emitApplyExpr, when there is one.
App == applied[1]

\* The last n elements of a sequence.
Suffix(q, n) == SubSeq(q, Len(q) - n + 1, Len(q))

\* The indices of q holding x.
Occurrences(q, x) == {i \in 1..Len(q) : q[i] = x}

\* C4: with an undef context pointer the withoutData signature is requested
\* and the argument list ends with the explicit arguments, no context
\* argument added; with any other context pointer the withData signature is
\* requested and that value is added exactly once, after the explicit
\* arguments.
C4_ContextElision ==
  applied # <<>> =>
    IF isUndefValue(App.data)
      THEN /\ ~App.needsData
           /\ FunctionTypeWithoutData = <<App.fnLLVMType>>
           /\ Len(App.callArgs) >= Len(App.explicit)
           /\ Suffix(App.callArgs, Len(App.explicit)) = App.explicit
           /\ \A i \in 1..Len(App.callArgs) :
                App.callArgs[i].v \in {"arg", "call.aggresult"}
      ELSE /\ App.needsData
           /\ FunctionTypeWithData = <<App.fnLLVMType>>
           /\ Len(App.callArgs) >= Len(App.explicit) + 1
           /\ Suffix(App.callArgs, Len(App.explicit) + 1) = Append(App.explicit, App.data)
           /\ Cardinality(Occurrences(App.callArgs, App.data)) = 1

\* A call with explicit arguments through a callee without context, made
\* after a call of the same function type with a context.
C4_Witness ==
  /\ applied # <<>>
  /\ isUndefValue(App.data)
  /\ Len(App.explicit) = 3
  /\ FunctionTypeWithData # <<>>

\* C5: the argument list of the call has as many entries as the signature
\* the callee is cast to has parameters, of the same types position by
\* position, with the result slot first exactly when the result is
\* aggregate and the context last exactly when it is passed; a context-less
\* call of (Int, Int) -> Int is cast to (i64, i64) -> i64 and gets 2
\* arguments.
C5_ArgsMatchSignature ==
  applied # <<>> =>
    LET args == App.callArgs
        params == App.fnLLVMType.params
    IN /\ Len(args) = Len(params)
       /\ \A i \in 1..Len(args) : args[i].ty = params[i]
       /\ getSchema(FnTy.Result).agg
            <=> (Len(args) >= 1 /\ args[1].v = "call.aggresult")
       /\ \A i \in 2..Len(args) : args[i].v # "call.aggresult"
       /\ App.needsData <=> (Len(args) >= 1 /\ args[Len(args)] = App.data)
       /\ \A i \in 1..Len(args) :
            (i < Len(args) \/ ~App.needsData) /\ (i > 1 \/ ~getSchema(FnTy.Result).agg)
              => args[i].v = "arg"
       /\ (/\ FnTy = [Input |-> [tuple |-> TRUE, fields |-> <<"Int", "Int">>],
                      Result |-> "Int"]
           /\ isUndefValue(App.data))
            => /\ App.fnLLVMType = [ret |-> ScalarTy("i64"),
                                    params |-> <<ScalarTy("i64"), ScalarTy("i64")>>]
               /\ Len(args) = 2

\* An aggregate-returning call with a context and a two-slot argument group.
C5_Witness ==
  /\ applied # <<>>
  /\ FnTy = [Input |-> [tuple |-> TRUE, fields |-> <<"Big", "Pair">>], Result |-> "Big"]
  /\ App.needsData
  /\ Len(App.callArgs) = 5

\* The extraction indices among the emitted instructions, in emission order.
RECURSIVE Extracts(_)
Extracts(insts) ==
  IF insts = <<>> THEN <<>>
  ELSE (IF Head(insts).op = "extractvalue" THEN <<Head(insts).n>> ELSE <<>>)
         \o Extracts(Tail(insts))

\* C6: an aggregate result puts one pointer first in the argument list,
\* tagged StructRet and NoAlias, and the r-value is the aggregate at that
\* address; one scalar slot gives the call's own value with no extraction;
\* N >= 2 slots give N extractions at 0..N-1 in ascending order, held in
\* that order; zero slots give no extraction and an empty r-value.
C6_ResultRValue ==
  applied # <<>> =>
    LET s == getSchema(FnTy.Result)
        N == Len(s.scalars)
        ex == Extracts(App.insts)
    IN IF s.agg
         THEN /\ Len(App.callArgs) >= 1
              /\ App.callArgs[1] = Val("call.aggresult", 0, getPointerTo(s.aggTy))
              /\ Occurrences(App.callArgs, App.callArgs[1]) = {1}
              /\ App.callAttrs = <<[Index |-> 1, Attrs |-> {"StructRet", "NoAlias"}]>>
              /\ App.result.isAgg
              /\ App.result.addr = <<App.callArgs[1]>>
              /\ ex = <<>>
         ELSE /\ App.callAttrs = <<>>
              /\ ~App.result.isAgg
              /\ Len(App.result.scalars) = N
              /\ IF N = 1
                   THEN /\ ex = <<>>
                        /\ App.result.scalars = <<Val("call", 0, App.fnLLVMType.ret)>>
                   ELSE /\ ex = [i \in 1..N |-> i - 1]
                        /\ \A i \in 1..N :
                             /\ App.result.scalars[i].v = "extractvalue"
                             /\ App.result.scalars[i].n = i - 1
                             /\ App.result.scalars[i].ty = ScalarTy(s.scalars[i])

\* A call whose result has two scalar slots of different types.
C6_Witness ==
  /\ applied # <<>>
  /\ FnTy.Result = "Pair"
  /\ Len(App.result.scalars) = 2

---------------------------------------------------------------------------
(* emitBuiltinCall                                                         *)

\* Largest number of values the argument of a builtin explodes to.
MaxOperands == 3

UnaryKinds == {"Neg", "Not"}

ArithmeticKinds == {"Add", "Mul", "Sub"}

ICmpKinds == {"CmpEQ", "CmpNE", "CmpSLE", "CmpSLT", "CmpSGE", "CmpSGT",
              "CmpULE", "CmpULT", "CmpUGE", "CmpUGT"}

FCmpKinds == {"FCmpOEQ", "FCmpOGT", "FCmpOGE", "FCmpOLT", "FCmpOLE", "FCmpONE",
              "FCmpORD", "FCmpUEQ", "FCmpUGT", "FCmpUGE", "FCmpULT", "FCmpULE",
              "FCmpUNE", "FCmpUNO"}

BinaryKinds == {"And", "FDiv", "Or", "SDiv", "SDivExact", "SRem", "UDiv",
                "UDivExact", "URem", "Xor"} \cup ICmpKinds \cup FCmpKinds

\* BuiltinValueKind, None included.
BuiltinValueKinds == {"None"} \cup UnaryKinds \cup ArithmeticKinds \cup BinaryKinds

\* The builder operation named in the case of a unary or plain binary kind.
simpleOp(kind) ==
  CASE kind = "SDivExact" -> "ExactSDiv"
    [] kind = "UDivExact" -> "ExactUDiv"
    [] kind = "CmpEQ"  -> "ICmpEQ"
    [] kind = "CmpNE"  -> "ICmpNE"
    [] kind = "CmpSLE" -> "ICmpSLE"
    [] kind = "CmpSLT" -> "ICmpSLT"
    [] kind = "CmpSGE" -> "ICmpSGE"
    [] kind = "CmpSGT" -> "ICmpSGT"
    [] kind = "CmpULE" -> "ICmpULE"
    [] kind = "CmpULT" -> "ICmpULT"
    [] kind = "CmpUGE" -> "ICmpUGE"
    [] kind = "CmpUGT" -> "ICmpUGT"
    [] OTHER -> kind

\* The floating-point operation named in the case of an arithmetic kind.
fpOp(kind) ==
  CASE kind = "Add" -> "FAdd"
    [] kind = "Mul" -> "FMul"
    [] kind = "Sub" -> "FSub"

arithmeticOperation_ByRhs(kind, lhs, rhs) ==
  IF isFloatingPointTy(rhs.ty) THEN fpOp(kind) ELSE kind

\* BINARY_ARITHMETIC_OPERATION: the operation chosen for the operands.
arithmeticOperation(kind, lhs, rhs) ==
  IF isFloatingPointTy(lhs.ty) THEN fpOp(kind) ELSE kind

\* A call that aborted before emitting anything.
builtinFatal(why) == [status |-> "fatal", why |-> why, emitted |-> <<>>]

\* A call that emitted op and returned its value.
builtinReturned(op) == [status |-> "returned", why |-> "", emitted |-> <<op>>]

\* The whole function; Values are what the argument expression explodes to.
\* Claiming from an exhausted explosion and leaving values unclaimed are
\* both fatal.
emitBuiltinCall(kind, Values, resultSchema) ==
  IF ~isScalar(resultSchema) THEN builtinFatal("builtin type with agg return")
  ELSE IF kind = "None" THEN builtinFatal("not a builtin after all!")
  ELSE IF kind \in UnaryKinds
    THEN IF Len(Values) < 1 THEN builtinFatal("claimNext")
         ELSE IF Len(Values) # 1 THEN builtinFatal("wrong operands to unary operation")
         ELSE builtinReturned(simpleOp(kind))
  ELSE IF Len(Values) < 2 THEN builtinFatal("claimNext")
  ELSE IF Len(Values) # 2 THEN builtinFatal("wrong operands to binary operation")
  ELSE IF kind \in ArithmeticKinds
    THEN builtinReturned(arithmeticOperation(kind, Values[1], Values[2]))
  ELSE builtinReturned(simpleOp(kind))

\* The values a builtin's argument can explode to.
OperandValues == {Val("operand", 0, ScalarTy("i64")), Val("operand", 0, ScalarTy("f64"))}

BuiltinInit == builtin = <<>>

\* A call of a builtin function, dispatched from emitApplyExpr.
EmitBuiltinCall ==
  \E kind \in BuiltinValueKinds, Values \in SeqUpTo(OperandValues, MaxOperands),
     resultTy \in {"Int", "Big"} :
    /\ builtin' = <<[kind |-> kind, Values |-> Values, resultTy |-> resultTy,
                     out |-> emitBuiltinCall(kind, Values, getSchema(resultTy))]>>
    /\ UNCHANGED <<sigVars, memory, stored, loaded, funcVars>>

\* The last emitBuiltinCall, when there is one.
Blt == builtin[1]

\* C8: Add, Mul and Sub emit the floating-point operation when the first
\* operand is floating-point and the integer operation otherwise, whatever
\* the second operand is; every other builtin emits one operation fixed by
\* its kind alone (CmpEQ always ICmpEQ); a call that returns has emitted
\* exactly one operation.
C8_BuiltinDispatch ==
  /\ builtin # <<>> /\ Blt.out.status = "fatal" => Blt.out.emitted = <<>>
  /\ builtin # <<>> /\ Blt.resultTy = "Int" /\ Blt.kind # "None"
        /\ Len(Blt.Values) = (IF Blt.kind \in {"Neg", "Not"} THEN 1 ELSE 2)
       => Blt.out.status = "returned"
  /\ builtin # <<>> /\ Blt.out.status = "returned" =>
    /\ Len(Blt.out.emitted) = 1
    /\ Blt.kind \in ArithmeticKinds =>
         Blt.out.emitted[1] =
           IF Blt.Values[1].ty.k = "f64"
             THEN (CASE Blt.kind = "Add" -> "FAdd"
                     [] Blt.kind = "Mul" -> "FMul"
                     [] Blt.kind = "Sub" -> "FSub")
             ELSE Blt.kind
    /\ Blt.kind \notin ArithmeticKinds =>
         \A other \in [1..Len(Blt.Values) -> OperandValues] :
           emitBuiltinCall(Blt.kind, other, getSchema(Blt.resultTy)).emitted
             = Blt.out.emitted
    /\ Blt.kind = "CmpEQ" => Blt.out.emitted = <<"ICmpEQ">>
    /\ Blt.kind = "SDivExact" => Blt.out.emitted = <<"ExactSDiv">>
    /\ Blt.kind = "FCmpOEQ" => Blt.out.emitted = <<"FCmpOEQ">>
    /\ Blt.kind = "Neg" => Blt.out.emitted = <<"Neg">>

\* Add returned for an integer first operand and a floating-point second.
C8_Witness ==
  /\ builtin # <<>>
  /\ Blt.kind = "Add"
  /\ Blt.out.status = "returned"
  /\ Blt.Values[1].ty.k = "i64" /\ Blt.Values[2].ty.k = "f64"

---------------------------------------------------------------------------
(* FuncTypeInfo::load and FuncTypeInfo::store.  Memory holds, for each     *)
(* address of a closure-shaped slot, the values of its elements 0 and 1;   *)
(* the loads and stores emitted are modelled by their effect on it.        *)

\* Number of closure-shaped slots.
NumAddrs == 2

Addrs == 1..NumAddrs

\* What a cell of memory can hold.
CellValues == {Val("fnaddr", 1, Int8PtrTy), Val("ctx", 1, Int8PtrTy), UndefValue(Int8PtrTy)}

\* The r-values stored: a code pointer and a data pointer, undef included.
ClosureRValues ==
  {RValueForScalars(<<f, d>>) : f \in FnValues, d \in DataValues}

\* The element a struct GEP with the given index addresses.
CreateStructGEP(addr, idx) == <<addr, idx>>

store_Swapped(mem, RV, address) ==
  [mem EXCEPT ![CreateStructGEP(address, 1)] = RV.scalars[1],
              ![CreateStructGEP(address, 0)] = RV.scalars[2]]

\* Memory after the two stores of FuncTypeInfo::store.
store(mem, RV, address) ==
  [mem EXCEPT ![CreateStructGEP(address, 0)] = RV.scalars[1],
              ![CreateStructGEP(address, 1)] = RV.scalars[2]]

\* The r-value of the two loads of FuncTypeInfo::load.
load(mem, address) ==
  RValueForScalars(<<mem[CreateStructGEP(address, 0)],
                     mem[CreateStructGEP(address, 1)]>>)


ClosureInit ==
  /\ memory \in [Addrs \X {0, 1} -> CellValues]
  /\ stored = [a \in Addrs |-> <<>>]
  /\ loaded = <<>>

\* store(IGF, RV, address); the assertion on RV holds for every closure
\* r-value.
Store ==
  \E RV \in ClosureRValues, address \in Addrs :
    /\ ~RV.isAgg /\ Len(RV.scalars) = 2
    /\ memory' = store(memory, RV, address)
    /\ stored' = [stored EXCEPT ![address] = <<RV>>]
    /\ UNCHANGED loaded
    /\ UNCHANGED <<sigVars, builtin, funcVars>>

\* load(IGF, address).
Load ==
  \E address \in Addrs :
    /\ loaded' = <<[address |-> address, RV |-> load(memory, address),
                    expect |-> stored[address]]>>
    /\ UNCHANGED <<memory, stored>>
    /\ UNCHANGED <<sigVars, builtin, funcVars>>

\* C9: a load from an address after a store to it, with no write between,
\* yields two scalars equal to the code pointer and the data pointer stored,
\* in that order, undef included; element 0 of the slot holds the code
\* pointer and element 1 the data pointer.
C9_ClosureRoundTrip ==
  /\ loaded # <<>> /\ loaded[1].expect # <<>>
       => /\ ~loaded[1].RV.isAgg
          /\ Len(loaded[1].RV.scalars) = 2
          /\ loaded[1].RV.scalars = loaded[1].expect[1].scalars
  /\ \A a \in Addrs :
       stored[a] # <<>> => /\ memory[<<a, 0>>] = stored[a][1].scalars[1]
                           /\ memory[<<a, 1>>] = stored[a][1].scalars[2]

\* A pair with an undef data pointer was stored and loaded back.
C9_Witness ==
  /\ loaded # <<>> /\ loaded[1].expect # <<>>
  /\ loaded[1].RV.scalars[1] = Val("fnaddr", 1, Int8PtrTy)
  /\ isUndefValue(loaded[1].RV.scalars[2])

---------------------------------------------------------------------------
(* IRGenFunction::emitPrologue.  CurParm is the number of incoming         *)
(* arguments consumed so far; argument n (from 0) is CurFnArgs[n + 1].     *)
(* Assertions are fatal.  Taking an argument past arg_end() yields a       *)
(* value that is no argument of the function: its type may or may not      *)
(* compare equal to the one expected (garbageMatches), and the iterator    *)
(* ends past arg_end().                                                    *)

\* Largest number of formal parameters.
MaxParams == 3

\* Largest number of incoming arguments missing from, or added to, the ones
\* the function's own signature has.
MaxDelta == 2

\* The types of formal parameters.
ParamTypes == {"Int", "Pair", "Big"}

\* An address: an incoming argument (n, from 0) or a local alloca (name).
ArgumentAddr(n) == [kind |-> "argument", n |-> n, name |-> ""]

AllocaAddr(name, n) == [kind |-> "alloca", n |-> n, name |-> name]

returnSlotFor_SingleScalarNone(resultSchema) ==
  IF isAggregate(resultSchema) THEN <<ArgumentAddr(0)>>
  ELSE IF isScalarN(resultSchema, 1) THEN <<>>
  ELSE <<AllocaAddr("return_value", 0)>>

\* ReturnSlot after the result slot is set up: <<>> when it stays invalid.
returnSlotFor(resultSchema) ==
  IF isAggregate(resultSchema) THEN <<ArgumentAddr(0)>>
  ELSE IF isScalarN(resultSchema, 0) THEN <<>>
  ELSE <<AllocaAddr("return_value", 0)>>

allExhausted_AtMost(CurParm, NumArgs) == CurParm <= NumArgs

\* The final assertion: CurParm == CurFn->arg_end().
allExhausted(CurParm, NumArgs) == CurParm = NumArgs

\* Whether the argument taken at position CurParm passes the type assertion.
typeAsserted(Args, CurParm, ParmType, garbageMatches) ==
  IF CurParm + 1 <= Len(Args)
    THEN Args[CurParm + 1] = ParmType
    ELSE garbageMatches

RECURSIVE takeScalars(_, _, _, _, _)
\* The loop over the scalar types of one parameter, from type j on: the
\* arguments taken, or a failed type assertion.
takeScalars(Args, CurParm, ParmTypes, j, garbageMatches) ==
  IF j > Len(ParmTypes) THEN [ok |-> TRUE, CurParm |-> CurParm, Scalars |-> <<>>]
  ELSE IF ~typeAsserted(Args, CurParm, ScalarTy(ParmTypes[j]), garbageMatches)
    THEN [ok |-> FALSE, CurParm |-> CurParm + 1, Scalars |-> <<>>]
  ELSE LET rest == takeScalars(Args, CurParm + 1, ParmTypes, j + 1, garbageMatches) IN
       [ok |-> rest.ok, CurParm |-> rest.CurParm, Scalars |-> <<CurParm>> \o rest.Scalars]

RECURSIVE bindParams(_, _, _, _, _, _)
\* The loop over the formal parameters, from parameter i on.  A local is
\* the parameter's address and the arguments stored into it.
bindParams(NamedArgs, i, Args, CurParm, Locals, garbageMatches) ==
  IF i > Len(NamedArgs) THEN [ok |-> TRUE, CurParm |-> CurParm, Locals |-> Locals]
  ELSE LET ParmSchema == getSchema(NamedArgs[i]) IN
       IF isAggregate(ParmSchema)
         THEN bindParams(NamedArgs, i + 1, Args, CurParm + 1,
                         Append(Locals, [addr |-> ArgumentAddr(CurParm), stored |-> <<>>]),
                         garbageMatches)
         ELSE LET t == takeScalars(Args, CurParm, ParmSchema.scalars, 1,
                                   garbageMatches) IN
              IF ~t.ok THEN [ok |-> FALSE, CurParm |-> t.CurParm, Locals |-> Locals]
              ELSE bindParams(NamedArgs, i + 1, Args, t.CurParm,
                              Append(Locals, [addr |-> AllocaAddr("parm", i),
                                              stored |-> t.Scalars]),
                              garbageMatches)

\* The whole prologue of a function expression with the given result type
\* and parameters, entered with the given incoming arguments.
emitPrologue(FuncExpr, Args, garbageMatches) ==
  LET resultSchema == getSchema(FuncExpr.Result)
      slot == returnSlotFor(resultSchema)
      first == IF isAggregate(resultSchema) THEN 1 ELSE 0
      b == bindParams(FuncExpr.NamedArgs, 1, Args, first, <<>>, garbageMatches)
  IN [status |-> IF b.ok /\ allExhausted(b.CurParm, Len(Args))
                   THEN "done" ELSE "fatal",
      why |-> IF ~b.ok THEN "V->getType() == ParmType"
              ELSE IF ~allExhausted(b.CurParm, Len(Args))
                THEN "didn't exhaust all parameters?" ELSE "",
      CurParm |-> b.CurParm,
      ReturnSlot |-> slot,
      Locals |-> b.Locals]

\* The arguments of the function's own signature without data pointer,
\* with the last d left out (d < 0) or d data pointers added (d > 0).
IncomingArgs(FuncExpr, d) ==
  LET own == computeFunctionType(
               [Input |-> [tuple |-> TRUE, fields |-> FuncExpr.NamedArgs],
                Result |-> FuncExpr.Result], FALSE).params
  IN IF d <= 0 THEN SubSeq(own, 1, Len(own) + d)
     ELSE own \o [k \in 1..d |-> Int8PtrTy]


FuncExprs ==
  {[Result |-> r, NamedArgs |-> a] : r \in LeafTypes, a \in SeqUpTo(ParamTypes, MaxParams)}

PrologueInit ==
  /\ CurFuncExpr \in FuncExprs
  /\ \E d \in -MaxDelta..MaxDelta : CurFnArgs = IncomingArgs(CurFuncExpr, d)
  /\ prologue = <<>>
  /\ body = <<>>
  /\ epilogue = <<>>

EmitPrologue ==
  /\ prologue = <<>>
  /\ \E garbageMatches \in BOOLEAN :
       prologue' = <<emitPrologue(CurFuncExpr, CurFnArgs, garbageMatches)>>
  /\ UNCHANGED <<CurFuncExpr, CurFnArgs, body, epilogue>>
  /\ UNCHANGED <<sigVars, builtin, memory, stored, loaded>>

\* The outcome of the prologue, when it ran.
Pro == prologue[1]

\* The number of low-level arguments a source type takes.
SlotCount(Ty) == IF getSchema(Ty).agg THEN 1 ELSE Len(getSchema(Ty).scalars)

RECURSIVE SlotsBefore(_, _)
\* The number of arguments the parameters before parameter i take.
SlotsBefore(NamedArgs, i) ==
  IF i <= 1 THEN 0 ELSE SlotsBefore(NamedArgs, i - 1) + SlotCount(NamedArgs[i - 1])

\* The number of arguments the prologue needs.
Required(FuncExpr) ==
  (IF getSchema(FuncExpr.Result).agg THEN 1 ELSE 0)
    + SlotsBefore(FuncExpr.NamedArgs, Len(FuncExpr.NamedArgs) + 1)

\* C7: the prologue takes the incoming arguments in order, argument 0 for
\* the return slot of an aggregate result, then per formal parameter one
\* argument (aggregate) or one per scalar slot; it completes only when the
\* arguments are exactly exhausted and is fatal with fewer or more.  Three
\* scalar parameters of 1, 2 and 1 slots and an aggregate result take
\* exactly 5 arguments.
C7_PrologueExhaustion ==
  prologue # <<>> =>
    LET F == CurFuncExpr
        base == IF getSchema(F.Result).agg THEN 1 ELSE 0
    IN /\ Pro.status \in {"done", "fatal"}
       /\ Len(CurFnArgs) # Required(F) => Pro.status = "fatal"
       /\ Pro.status = "done" =>
            /\ Pro.CurParm = Len(CurFnArgs)
            /\ Len(CurFnArgs) = Required(F)
            /\ getSchema(F.Result).agg => Pro.ReturnSlot = <<ArgumentAddr(0)>>
            /\ Len(Pro.Locals) = Len(F.NamedArgs)
            /\ \A i \in 1..Len(F.NamedArgs) :
                 LET at == base + SlotsBefore(F.NamedArgs, i) IN
                 IF getSchema(F.NamedArgs[i]).agg
                   THEN /\ Pro.Locals[i].addr = ArgumentAddr(at)
                        /\ Pro.Locals[i].stored = <<>>
                   ELSE /\ Pro.Locals[i].addr.kind = "alloca"
                        /\ Pro.Locals[i].stored
                             = [k \in 1..SlotCount(F.NamedArgs[i]) |-> at + k - 1]
       /\ F = [Result |-> "Big", NamedArgs |-> <<"Int", "Pair", "Int">>]
            => (Pro.status = "done" <=> Len(CurFnArgs) = 5)

\* The prologue of the 1, 2, 1 slot function with an aggregate result
\* completed on 5 arguments.
C7_Witness ==
  /\ prologue # <<>>
  /\ CurFuncExpr = [Result |-> "Big", NamedArgs |-> <<"Int", "Pair", "Int">>]
  /\ Len(CurFnArgs) = 5
  /\ Pro.status = "done"
  /\ Pro.CurParm = 5

\* C10 as stated: an aggregate result binds the first incoming argument as
\* the return slot, a single-scalar result creates no local return slot, a
\* multi-scalar or zero-scalar result allocates a local return-value slot.
C10_AsStated ==
  prologue # <<>> /\ Pro.status = "done" =>
    LET s == getSchema(CurFuncExpr.Result) IN
    CASE s.agg -> Pro.ReturnSlot = <<ArgumentAddr(0)>>
      [] ~s.agg /\ Len(s.scalars) = 1 -> Pro.ReturnSlot = <<>>
      [] OTHER -> Pro.ReturnSlot = <<AllocaAddr("return_value", 0)>>

\* C10 (amended): an aggregate result binds the first incoming argument as
\* the return slot, a zero-scalar result creates no local return slot, a
\* result of one or more scalars allocates a local return-value slot.
C10_ReturnSlot ==
  prologue # <<>> /\ Pro.status = "done" =>
    LET s == getSchema(CurFuncExpr.Result) IN
    CASE s.agg -> Pro.ReturnSlot = <<ArgumentAddr(0)>>
      [] ~s.agg /\ Len(s.scalars) = 0 -> Pro.ReturnSlot = <<>>
      [] OTHER -> Pro.ReturnSlot = <<AllocaAddr("return_value", 0)>>

\* The prologue of a function with a single-scalar result completed.
C10_Witness ==
  /\ prologue # <<>>
  /\ Pro.status = "done"
  /\ CurFuncExpr.Result = "Int"
  /\ Pro.ReturnSlot # <<>>

---------------------------------------------------------------------------
(* The function body and IRGenFunction::emitEpilogue.  The blocks of the   *)
(* function are the entry block, the return block and the blocks the body  *)
(* creates.  A use of the return block is a branch instruction to it; the  *)
(* builder's insertion point is <<>> (none: the current position is        *)
(* unreachable) or <<the block instructions are appended to>>.             *)

\* Largest number of blocks the body adds to the entry block.
MaxBodyBlocks == 2

Block(name, n) == [name |-> name, n |-> n]

EntryBB == Block("entry", 0)

ReturnBB == Block("return", 0)

BodyBlocks == {EntryBB} \cup {Block("bb", i) : i \in 1..MaxBodyBlocks}

BranchInst(parent, dest, unconditional) ==
  [parent |-> parent, dest |-> dest, unconditional |-> unconditional]

\* What a body leaves behind: the blocks that end in a return statement,
\* each an unconditional branch to the return block, and the insertion
\* point, which is in no block that already has its terminator.
Bodies ==
  {[uses |-> {BranchInst(b, ReturnBB, TRUE) : b \in returning}, IP |-> ip] :
     <<returning, ip>> \in
       {<<r, p>> \in (SUBSET BodyBlocks) \X ({<<>>} \cup {<<b>> : b \in BodyBlocks}) :
          p = <<>> \/ p[1] \notin r}}

resolveReturnBlock_KeepBranch(uses, IP) ==
  IF uses = {}
    THEN [status |-> "done", resolution |-> "erase", ReturnBBErased |-> TRUE,
          uses |-> uses, IP |-> IP, emitsReturn |-> IP # <<>>,
          steps |-> <<"ReturnBB->eraseFromParent">>]
  ELSE IF IP # <<>>
    THEN [status |-> "done", resolution |-> "branch", ReturnBBErased |-> FALSE,
          uses |-> uses \cup {BranchInst(IP[1], ReturnBB, TRUE)},
          IP |-> <<ReturnBB>>, emitsReturn |-> TRUE,
          steps |-> <<"CreateBr(ReturnBB)", "SetInsertPoint(ReturnBB)">>]
  ELSE IF Cardinality(uses) = 1
    THEN LET Br == CHOOSE u \in uses : TRUE IN
         [status |-> IF Br.unconditional THEN "done" ELSE "fatal",
          resolution |-> "merge", ReturnBBErased |-> Br.unconditional,
          uses |-> uses,
          IP |-> <<Br.parent>>, emitsReturn |-> Br.unconditional,
          steps |-> IF Br.unconditional
                      THEN <<"SetInsertPoint(Br->getParent())",
                             "ReturnBB->eraseFromParent">>
                      ELSE <<>>]
  ELSE [status |-> "done", resolution |-> "move", ReturnBBErased |-> FALSE,
        uses |-> uses, IP |-> <<ReturnBB>>, emitsReturn |-> TRUE,
        steps |-> <<"SetInsertPoint(ReturnBB)">>]

\* The control-flow resolution of the epilogue: what becomes of the return
\* block, of the branches to it and of the insertion point, and whether a
\* return instruction follows.
resolveReturnBlock(uses, IP) ==
  IF uses = {}
    THEN [status |-> "done", resolution |-> "erase", ReturnBBErased |-> TRUE,
          uses |-> uses, IP |-> IP, emitsReturn |-> IP # <<>>,
          steps |-> <<"ReturnBB->eraseFromParent">>]
  ELSE IF IP # <<>>
    THEN [status |-> "done", resolution |-> "branch", ReturnBBErased |-> FALSE,
          uses |-> uses \cup {BranchInst(IP[1], ReturnBB, TRUE)},
          IP |-> <<ReturnBB>>, emitsReturn |-> TRUE,
          steps |-> <<"CreateBr(ReturnBB)", "SetInsertPoint(ReturnBB)">>]
  ELSE IF Cardinality(uses) = 1
    THEN LET Br == CHOOSE u \in uses : TRUE IN
         [status |-> IF Br.unconditional THEN "done" ELSE "fatal",
          resolution |-> "merge", ReturnBBErased |-> Br.unconditional,
          uses |-> IF Br.unconditional THEN uses \ {Br} ELSE uses,
          IP |-> <<Br.parent>>, emitsReturn |-> Br.unconditional,
          steps |-> IF Br.unconditional
                      THEN <<"SetInsertPoint(Br->getParent())",
                             "Br->eraseFromParent",
                             "ReturnBB->eraseFromParent">>
                      ELSE <<>>]
  ELSE [status |-> "done", resolution |-> "move", ReturnBBErased |-> FALSE,
        uses |-> uses, IP |-> <<ReturnBB>>, emitsReturn |-> TRUE,
        steps |-> <<"SetInsertPoint(ReturnBB)">>]

\* resultType.load(*this, ReturnSlot): one loaded value for each scalar of
\* the type's schema, in order.
typeInfoLoad(Ty, address) ==
  RValueForScalars([i \in 1..Len(getSchema(Ty).scalars) |->
                      Val("load", i - 1, ScalarTy(getSchema(Ty).scalars[i]))])

\* The type CurFn returns: the function was declared with the signature
\* derived from its type.
CurFnReturnType(FuncExpr) ==
  computeFunctionType([Input |-> [tuple |-> TRUE, fields |-> FuncExpr.NamedArgs],
                       Result |-> FuncExpr.Result], FALSE).ret

returnOperand_Descending(RV, RetTy) ==
  IF Len(RV.scalars) = 1
    THEN [kind |-> "scalar", value |-> <<RV.scalars[1]>>, base |-> <<>>,
          inserts |-> <<>>]
    ELSE LET E == Len(RV.scalars) IN
         [kind |-> "struct", value |-> <<Val("insertvalue", E - 1, RetTy)>>,
          base |-> <<UndefValue(RetTy)>>,
          inserts |-> [I \in 1..E |-> [index |-> E - I,
                                       value |-> RV.scalars[E - I + 1]]]]

\* The value returned for a loaded r-value: its only scalar, or the result
\* of inserting its scalars, in order, into an undefined value of the
\* function's return type.
returnOperand(RV, RetTy) ==
  IF Len(RV.scalars) = 1
    THEN [kind |-> "scalar", value |-> <<RV.scalars[1]>>, base |-> <<>>,
          inserts |-> <<>>]
    ELSE LET E == Len(RV.scalars) IN
         [kind |-> "struct", value |-> <<Val("insertvalue", E - 1, RetTy)>>,
          base |-> <<UndefValue(RetTy)>>,
          inserts |-> [I \in 1..E |-> [index |-> I - 1, value |-> RV.scalars[I]]]]

\* The return instruction of the epilogue, for a function of the given
\* result type, return slot and low-level return type.
emitReturn(ResultTy, ReturnSlot, RetTy) ==
  LET resultSchema == getSchema(ResultTy) IN
  IF isAggregate(resultSchema)
    THEN [status |-> IF ReturnSlot # <<>> /\ ReturnSlot[1].kind = "argument"
                       THEN "done" ELSE "fatal",
          kind |-> "void", reads |-> FALSE, value |-> <<>>, base |-> <<>>,
          inserts |-> <<>>, steps |-> <<"CreateRetVoid">>]
  ELSE IF isScalarN(resultSchema, 0)
    THEN [status |-> IF ReturnSlot = <<>> THEN "done" ELSE "fatal",
          kind |-> "void", reads |-> FALSE, value |-> <<>>, base |-> <<>>,
          inserts |-> <<>>, steps |-> <<"CreateRetVoid">>]
  ELSE LET op == returnOperand(typeInfoLoad(ResultTy, ReturnSlot), RetTy) IN
       [status |-> "done", kind |-> op.kind, reads |-> TRUE, value |-> op.value,
        base |-> op.base, inserts |-> op.inserts,
        steps |-> <<"load ReturnSlot">>
                    \o [i \in 1..Len(op.inserts) |-> "CreateInsertValue"]
                    \o <<"CreateRet">>]

epilogueSteps_EraseLast(resolution, emission) ==
  resolution \o emission \o <<"AllocaIP->eraseFromParent">>

\* The steps of the epilogue in the order they are taken, given the steps
\* of the control-flow resolution and of the return emission.
epilogueSteps(resolution, emission) ==
  <<"AllocaIP->eraseFromParent">> \o resolution \o emission

\* The whole epilogue of a function expression, given the return slot the
\* prologue set up and the uses of the return block and the insertion
\* point the body left.  ret is <<>> or <<the return instruction>>.
emitEpilogue(FuncExpr, ReturnSlot, uses, IP) ==
  LET cf == resolveReturnBlock(uses, IP)
      r == emitReturn(FuncExpr.Result, ReturnSlot, CurFnReturnType(FuncExpr))
      returns == cf.status = "done" /\ cf.emitsReturn
  IN [status |-> IF returns THEN r.status ELSE cf.status,
      AllocaIPErased |-> TRUE,
      ReturnBBErased |-> cf.ReturnBBErased,
      uses |-> cf.uses,
      IP |-> cf.IP,
      ret |-> IF returns /\ r.status = "done"
                THEN <<[block |-> cf.IP[1], kind |-> r.kind, reads |-> r.reads,
                        value |-> r.value, base |-> r.base, inserts |-> r.inserts]>>
                ELSE <<>>,
      steps |-> epilogueSteps(cf.steps, IF returns /\ r.status = "done"
                                          THEN r.steps ELSE <<>>)]

\* emitBraceStmt on the body of the function, after the prologue.
EmitBody ==
  /\ prologue # <<>>
  /\ Pro.status = "done"
  /\ body = <<>>
  /\ \E b \in Bodies : body' = <<b>>
  /\ UNCHANGED <<CurFuncExpr, CurFnArgs, prologue, epilogue>>
  /\ UNCHANGED <<sigVars, builtin, memory, stored, loaded>>

EmitEpilogue ==
  /\ body # <<>>
  /\ epilogue = <<>>
  /\ epilogue' = <<emitEpilogue(CurFuncExpr, Pro.ReturnSlot, body[1].uses, body[1].IP)>>
  /\ UNCHANGED <<CurFuncExpr, CurFnArgs, prologue, body>>
  /\ UNCHANGED <<sigVars, builtin, memory, stored, loaded>>

\* What the body left behind and the outcome of the epilogue, when they ran.
Bod == body[1]

Epi == epilogue[1]

\* Whether the epilogue emitted its return instruction in block b.
ReturnsIn(b) == Epi.ret # <<>> /\ Epi.ret[1].block = b

\* C11: the epilogue resolves control flow in exactly one of four ways,
\* chosen by the number of branches to the return block and by whether the
\* current insertion point is reachable.  No branch and unreachable: the
\* return block is erased and no return instruction is emitted.  No branch
\* and reachable: the return block is erased and the return is emitted in
\* the current block.  Some branch and reachable: a branch from the current
\* block to the return block is added and the return is emitted in the
\* return block.  One branch and unreachable: the branch and the return
\* block are erased and the return is emitted in the block the branch was
\* in.  Two or more branches and unreachable: the return is emitted in the
\* return block.  In every case no branch is left to an erased return block.
C11_ControlFlowResolution ==
  epilogue # <<>> =>
    LET n == Cardinality(Bod.uses)
        reachable == Bod.IP # <<>>
    IN /\ Epi.status = "done"
       /\ n = 0 /\ ~reachable =>
            Epi.ReturnBBErased /\ Epi.ret = <<>> /\ Epi.uses = {}
       /\ n = 0 /\ reachable =>
            Epi.ReturnBBErased /\ ReturnsIn(Bod.IP[1]) /\ Epi.uses = {}
       /\ n >= 1 /\ reachable =>
            /\ ~Epi.ReturnBBErased
            /\ Epi.uses = Bod.uses \cup {BranchInst(Bod.IP[1], ReturnBB, TRUE)}
            /\ ReturnsIn(ReturnBB)
       /\ n = 1 /\ ~reachable =>
            /\ Epi.ReturnBBErased
            /\ Epi.uses = {}
            /\ \A u \in Bod.uses : u.unconditional /\ ReturnsIn(u.parent)
       /\ n >= 2 /\ ~reachable =>
            ~Epi.ReturnBBErased /\ Epi.uses = Bod.uses /\ ReturnsIn(ReturnBB)
       /\ Epi.ReturnBBErased => \A u \in Epi.uses : u.dest # ReturnBB

\* The epilogue merged the return block into the only block that branched
\* to it, with the insertion point unreachable.
C11_Witness ==
  /\ epilogue # <<>>
  /\ Cardinality(Bod.uses) = 1
  /\ Bod.IP = <<>>
  /\ Epi.ReturnBBErased
  /\ Epi.ret # <<>>
  /\ Epi.ret[1].block \in BodyBlocks

\* The positions of step s in a sequence of steps.
Positions(steps, s) == {i \in 1..Len(steps) : steps[i] = s}

\* C12 as stated: whenever the epilogue ran, the alloca insertion point
\* was erased exactly once and as its last step, after the control-flow
\* resolution and the return emission.
C12_DiscardedLast ==
  epilogue # <<>> =>
    /\ Epi.AllocaIPErased
    /\ Positions(Epi.steps, "AllocaIP->eraseFromParent") = {Len(Epi.steps)}

\* C12: whenever the epilogue ran, on every branch of it and also on the
\* one that returns early without a return instruction, the alloca
\* insertion point was erased exactly once and as the first step, before
\* every step of the control-flow resolution and of the return emission.
C12_DiscardedFirst ==
  epilogue # <<>> =>
    /\ Epi.AllocaIPErased
    /\ Positions(Epi.steps, "AllocaIP->eraseFromParent") = {1}
    /\ Len(Epi.steps) > 1

\* The epilogue returned early, without a return instruction, and erased
\* the alloca insertion point before it erased the return block.
C12_Witness ==
  /\ epilogue # <<>>
  /\ Epi.status = "done"
  /\ Epi.ret = <<>>
  /\ Epi.steps = <<"AllocaIP->eraseFromParent", "ReturnBB->eraseFromParent">>

---------------------------------------------------------------------------
(* Specifications.  Each one runs one part of the file and holds the state *)
(* of the other parts fixed.                                               *)


SigIdle ==
  /\ FnTy = [Input |-> [tuple |-> TRUE, fields |-> <<>>], Result |-> "Unit"]
  /\ FunctionTypeWithData = <<>>
  /\ FunctionTypeWithoutData = <<>>
  /\ lastCall = <<>>
  /\ firstType = [b \in BOOLEAN |-> <<>>]
  /\ applied = <<>>
  /\ cacheHit = [b \in BOOLEAN |-> FALSE]

ClosureIdle ==
  /\ memory = [c \in Addrs \X {0, 1} |-> UndefValue(Int8PtrTy)]
  /\ stored = [a \in Addrs |-> <<>>]
  /\ loaded = <<>>

PrologueIdle ==
  /\ CurFuncExpr = [Result |-> "Unit", NamedArgs |-> <<>>]
  /\ CurFnArgs = <<>>
  /\ prologue = <<>>
  /\ body = <<>>
  /\ epilogue = <<>>

\* One FuncTypeInfo descriptor: signature requests and calls through it.
Init == SigInit /\ BuiltinInit /\ ClosureIdle /\ PrologueIdle

Next == GetFunctionType \/ EmitApplyExpr

Spec == Init /\ [][Next]_vars

\* Calls of builtin functions.
InitBuiltin == SigIdle /\ BuiltinInit /\ ClosureIdle /\ PrologueIdle

NextBuiltin == EmitBuiltinCall

SpecBuiltin == InitBuiltin /\ [][NextBuiltin]_vars

\* Stores to and loads from closure-shaped slots.
InitClosure == SigIdle /\ BuiltinInit /\ ClosureInit /\ PrologueIdle

NextClosure == Store \/ Load

SpecClosure == InitClosure /\ [][NextClosure]_vars

\* The entry marshaling of one function.
InitPrologue == SigIdle /\ BuiltinInit /\ ClosureIdle /\ PrologueInit

NextPrologue == EmitPrologue \/ EmitBody \/ EmitEpilogue

SpecPrologue == InitPrologue /\ [][NextPrologue]_vars

=============================================================================
